---- MODULE Spec2Model ----
(***************************************************************************)
(* Model of the NestJS lambda bundling construct:                          *)
(*   src/lib/bundling.ts   - Bundling, OsCommand, chain, osPathJoin        *)
(*   src/unnamed/part_000  - NestjsFunction, findLockFile                  *)
(* Command lines are TLA+ strings, built character for character as the    *)
(* template literals of the source build them, and taken apart again by a  *)
(* model of the shell's list parsing.                                      *)
(***************************************************************************)
EXTENDS Naturals, Sequences, FiniteSets, TLC

VARIABLES
    \* ---- one bundling operation (Bundling + tryBundle + the spawned shell)
    osPlatform,      \* os.platform() of the host, bundling.ts:124
    props,           \* BundlingProps handed to the Bundling constructor
    pkgJson,         \* the package.json findUp reaches from props.entry
    outputDir,       \* the outputDir argument of tryBundle
    pc,              \* position of the tryBundle call
    localCommand,    \* the string createLocalCommand returned
    error,           \* the Error that left tryBundle, "" when none
    execCalls,       \* number of calls of exec
    shell,           \* the spawned shell: parsed list, position, cwd, status, log
    result,          \* what tryBundle returned
    \* ---- findLockFile
    lfArg,           \* the depsLockFilePath argument
    lfFs,            \* lock files present per directory level, 1 = process.cwd()
    lfOut,           \* outcome of the call
    \* ---- chain, applied to a list of commands
    chCommands,
    chResult,
    \* ---- osPathJoin, applied to path segments
    pjHost,
    pjTarget,
    pjPaths,
    pjResult

bundleVars == <<osPlatform, props, pkgJson, outputDir, pc, localCommand, error,
                execCalls, shell, result>>
lockVars == <<lfArg, lfFs, lfOut>>
chainVars == <<chCommands, chResult>>
pathVars == <<pjHost, pjTarget, pjPaths, pjResult>>
vars == <<bundleVars, lockVars, chainVars, pathVars>>

\* Bounds of the model.
MaxCmds == 3
MaxSegs == 2
MaxDepth == 2
MaxModules == 2

None == "<undefined>"
Pending == "<pending>"

(***************************************************************************)
(* Strings                                                                 *)
(***************************************************************************)
CharAt(s, i) == SubSeq(s, i, i)

StartsWith(s, p) == Len(s) >= Len(p) /\ SubSeq(s, 1, Len(p)) = p

EndsWith(s, p) == Len(s) >= Len(p) /\ SubSeq(s, Len(s) - Len(p) + 1, Len(s)) = p

Contains(s, p) == \E i \in 1..(Len(s) + 1) : StartsWith(SubSeq(s, i, Len(s)), p)

\* Array.prototype.join
RECURSIVE Join(_, _)
Join(list, sep) ==
    IF list = <<>> THEN ""
    ELSE IF Len(list) = 1 THEN list[1]
    ELSE list[1] \o sep \o Join(Tail(list), sep)

\* String.prototype.replace(/from/g, to) for a one-character pattern
RECURSIVE ReplaceAll(_, _, _)
ReplaceAll(s, from, to) ==
    IF s = "" THEN ""
    ELSE (IF CharAt(s, 1) = from THEN to ELSE CharAt(s, 1))
         \o ReplaceAll(SubSeq(s, 2, Len(s)), from, to)

IsWin32(platform) == platform = "win32"

(***************************************************************************)
(* chain, bundling.ts:196-198                                              *)
(***************************************************************************)
Truthy(c) == c # ""

chain_nofilter(commands) == Join(commands, " && ")

chain_sequential(commands) == Join(SelectSeq(commands, Truthy), " ; ")

chain(commands) == Join(SelectSeq(commands, Truthy), " && ")

(***************************************************************************)
(* path.join / path.dirname of the host (node's path module), for paths    *)
(* without "." and ".." segments: separators are unified and runs of       *)
(* separators collapse; win32 accepts both separators and emits "\".       *)
(***************************************************************************)
Sep(host) == IF IsWin32(host) THEN "\\" ELSE "/"

IsSep(host, c) == c = "/" \/ (IsWin32(host) /\ c = "\\")

RECURSIVE Normalize(_, _, _)
Normalize(host, s, afterSep) ==
    IF s = "" THEN ""
    ELSE IF IsSep(host, CharAt(s, 1))
         THEN (IF afterSep THEN "" ELSE Sep(host))
              \o Normalize(host, SubSeq(s, 2, Len(s)), TRUE)
         ELSE CharAt(s, 1) \o Normalize(host, SubSeq(s, 2, Len(s)), FALSE)

PathJoin(host, paths) ==
    LET joined == Join(SelectSeq(paths, Truthy), Sep(host))
    IN IF joined = "" THEN "." ELSE Normalize(host, joined, FALSE)

RECURSIVE LastSepIndex(_, _, _)
LastSepIndex(host, s, i) ==
    IF i = 0 THEN 0
    ELSE IF IsSep(host, CharAt(s, i)) THEN i
    ELSE LastSepIndex(host, s, i - 1)

Dirname(host, p) ==
    LET k == LastSepIndex(host, p, Len(p))
    IN IF k = 0 THEN "." ELSE IF k = 1 THEN CharAt(p, 1) ELSE SubSeq(p, 1, k - 1)

(***************************************************************************)
(* osPathJoin, bundling.ts:203-212.  host is os.platform().                *)
(***************************************************************************)
osPathJoin_towin(host, platform, paths) ==
    LET joined == PathJoin(host, paths)
    IN IF ~IsWin32(host) /\ IsWin32(platform)
       THEN ReplaceAll(joined, "/", "\\")
       ELSE IF IsWin32(host) /\ ~IsWin32(platform)
       THEN ReplaceAll(joined, "\\", "/")
       ELSE joined

osPathJoin(host, platform, paths) ==
    LET joined == PathJoin(host, paths)
    IN IF IsWin32(host) /\ ~IsWin32(platform)
       THEN ReplaceAll(joined, "\\", "/")
       ELSE joined

(***************************************************************************)
(* LockFile and PackageManager.fromLockFile (./package-manager): the lock  *)
(* file's name selects the manager; each manager has its canonical lock    *)
(* file name and its install command as an argument list.                  *)
(***************************************************************************)
LockFilePNPM == "pnpm-lock.yaml"
LockFileYARN == "yarn.lock"
LockFileNPM == "package-lock.json"

LockFileNames == <<LockFilePNPM, LockFileYARN, LockFileNPM>>

Basename(host, p) == SubSeq(p, LastSepIndex(host, p, Len(p)) + 1, Len(p))

PackageManagerFromLockFile(host, lockFilePath) ==
    LET name == Basename(host, lockFilePath)
    IN IF name = LockFileYARN
       THEN [lockFile |-> LockFileYARN, installCommand |-> <<"yarn", "install">>]
       ELSE IF name = LockFilePNPM
       THEN [lockFile |-> LockFilePNPM, installCommand |-> <<"pnpm", "install">>]
       ELSE [lockFile |-> LockFileNPM, installCommand |-> <<"npm", "ci">>]

(***************************************************************************)
(* findUp and extractDependencies (./util)                                 *)
(***************************************************************************)
\* findUp('package.json', entry): the path of the nearest package.json at or
\* above entry, undefined when there is none.
findUp(host, entry) ==
    IF pkgJson.found THEN PathJoin(host, <<pkgJson.dir, "package.json">>) ELSE None

Sections(pkg) == <<pkg.dependencies, pkg.peerDependencies, pkg.devDependencies>>

Declares(pkg, mod) == \E i \in 1..3 : mod \in DOMAIN Sections(pkg)[i]

\* the first section, in priority order, that declares mod decides its version
VersionOf(pkg, mod) ==
    LET i == CHOOSE k \in 1..3 :
                 /\ mod \in DOMAIN Sections(pkg)[k]
                 /\ \A j \in 1..(k - 1) : mod \notin DOMAIN Sections(pkg)[j]
    IN Sections(pkg)[i][mod]

\* the entries of the object built by dependencies[mod] = version, in
\* insertion order (a repeated name keeps its first position)
RECURSIVE DependencyEntries(_, _, _)
DependencyEntries(pkg, modules, seen) ==
    IF modules = <<>> THEN <<>>
    ELSE IF modules[1] \in seen THEN DependencyEntries(pkg, Tail(modules), seen)
    ELSE <<[name |-> modules[1], version |-> VersionOf(pkg, modules[1])]>>
         \o DependencyEntries(pkg, Tail(modules), seen \cup {modules[1]})

extractDependencies(pkg, modules) ==
    LET NotDeclared(m) == ~Declares(pkg, m)
        missing == SelectSeq(modules, NotDeclared)
    IN IF ~pkg.valid
       THEN [ok |-> FALSE, message |-> "Cannot parse package.json", dependencies |-> <<>>]
       ELSE IF missing # <<>>
       THEN [ok |-> FALSE,
             message |-> "Cannot extract version for module " \o Join(missing, ", "),
             dependencies |-> <<>>]
       ELSE [ok |-> TRUE, message |-> "",
             dependencies |-> DependencyEntries(pkg, modules, {})]

(***************************************************************************)
(* JSON.stringify({ dependencies })                                        *)
(***************************************************************************)
RECURSIVE JsonMembers(_)
JsonMembers(entries) ==
    IF entries = <<>> THEN ""
    ELSE "\"" \o entries[1].name \o "\":\"" \o entries[1].version \o "\""
         \o (IF Len(entries) > 1 THEN "," ELSE "") \o JsonMembers(Tail(entries))

JsonStringify(dependencies) == "{\"dependencies\":{" \o JsonMembers(dependencies) \o "}}"

(***************************************************************************)
(* OsCommand, bundling.ts:168-191                                          *)
(***************************************************************************)
writeJson(platform, filePath, dependencies) ==
    LET stringifiedData == JsonStringify(dependencies)
    IN IF IsWin32(platform)
       THEN "echo ^" \o stringifiedData \o "^ > \"" \o filePath \o "\""
       ELSE "echo '" \o stringifiedData \o "' > \"" \o filePath \o "\""

copy(platform, src, dest) ==
    IF IsWin32(platform)
    THEN "copy \"" \o src \o "\" \"" \o dest \o "\""
    ELSE "cp \"" \o src \o "\" \"" \o dest \o "\""

changeDirectory(dir) == "cd \"" \o dir \o "\""

(***************************************************************************)
(* Bundling constructor, bundling.ts:82-87                                 *)
(***************************************************************************)
\* path.relative(from, to) for a file at or below from
PathRelative(host, from, to) ==
    IF StartsWith(to, from \o Sep(host))
    THEN SubSeq(to, Len(from) + 2, Len(to))
    ELSE to

relativeDepsLockFilePath == PathRelative(osPlatform, props.projectRoot, props.depsLockFilePath)

packageManager == PackageManagerFromLockFile(osPlatform, props.depsLockFilePath)

(***************************************************************************)
(* Bundling.createBundlingCommand, bundling.ts:89-121.  The result is      *)
(* [threw, value]: the Error's message when it throws, the command         *)
(* otherwise.                                                              *)
(***************************************************************************)
\* the messages are the source's without their backquotes
PkgNotFoundMessage ==
    "Cannot find a package.json in this project. Using nodeModules requires a package.json."

BuildCommand == "npx nest build " \o (IF props.project = None THEN "" ELSE props.project) \o " --webpack"

ArtifactCopy(host, platform, outDir) ==
    LET outdir == "\"" \o osPathJoin(host, platform, <<Dirname(host, props.entry)>>) \o "\""
    IN "cp -r " \o osPathJoin(host, platform, <<outdir, "*">>) \o " \"" \o outDir \o "\""

\* a variant that copies the lock file before it writes the manifest
DepsChain_copyFirst(host, platform, inputDir, outDir, dependencies) ==
    LET lockFilePath == osPathJoin(host, platform, <<inputDir, relativeDepsLockFilePath>>)
    IN chain(<<
         copy(platform, lockFilePath, osPathJoin(host, platform, <<outDir, packageManager.lockFile>>)),
         writeJson(platform, osPathJoin(host, platform, <<outDir, "package.json">>), dependencies),
         changeDirectory(outDir),
         Join(packageManager.installCommand, " ")
       >>)

\* a variant that installs before it changes directory
DepsChain_cdLast(host, platform, inputDir, outDir, dependencies) ==
    LET lockFilePath == osPathJoin(host, platform, <<inputDir, relativeDepsLockFilePath>>)
    IN chain(<<
         writeJson(platform, osPathJoin(host, platform, <<outDir, "package.json">>), dependencies),
         copy(platform, lockFilePath, osPathJoin(host, platform, <<outDir, packageManager.lockFile>>)),
         Join(packageManager.installCommand, " "),
         changeDirectory(outDir)
       >>)

DepsChain(host, platform, inputDir, outDir, dependencies) ==
    LET lockFilePath == osPathJoin(host, platform, <<inputDir, relativeDepsLockFilePath>>)
    IN chain(<<
         writeJson(platform, osPathJoin(host, platform, <<outDir, "package.json">>), dependencies),
         copy(platform, lockFilePath, osPathJoin(host, platform, <<outDir, packageManager.lockFile>>)),
         changeDirectory(outDir),
         Join(packageManager.installCommand, " ")
       >>)

\* a variant that drops the dependency step instead of throwing
createBundlingCommand_nothrow(host, platform, inputDir, outDir) ==
    LET extracted == extractDependencies(pkgJson, props.nodeModules.names)
    IN IF props.nodeModules.given /\ findUp(host, props.entry) # None /\ extracted.ok
       THEN [threw |-> FALSE,
             value |-> chain(<<BuildCommand,
                               ArtifactCopy(host, platform, outDir),
                               DepsChain(host, platform, inputDir, outDir,
                                         extracted.dependencies)>>)]
       ELSE [threw |-> FALSE,
             value |-> chain(<<BuildCommand, ArtifactCopy(host, platform, outDir), "">>)]

createBundlingCommand(host, platform, inputDir, outDir) ==
    IF props.nodeModules.given
    THEN LET pkgPath == findUp(host, props.entry)
             extracted == extractDependencies(pkgJson, props.nodeModules.names)
         IN IF pkgPath = None
            THEN [threw |-> TRUE, value |-> PkgNotFoundMessage]
            ELSE IF ~extracted.ok
            THEN [threw |-> TRUE, value |-> extracted.message]
            ELSE [threw |-> FALSE,
                  value |-> chain(<<BuildCommand,
                                    ArtifactCopy(host, platform, outDir),
                                    DepsChain(host, platform, inputDir, outDir,
                                              extracted.dependencies)>>)]
    ELSE [threw |-> FALSE,
          value |-> chain(<<BuildCommand, ArtifactCopy(host, platform, outDir), "">>)]

\* createLocalCommand of getLocalBundlingProvider, bundling.ts:124-129
createLocalCommand(outDir) ==
    createBundlingCommand(osPlatform, osPlatform, props.projectRoot, outDir)

(***************************************************************************)
(* The shell exec spawns (bash -c / cmd /c), bundling.ts:137-151: the      *)
(* command line is a list of simple commands connected by "&&" (run the    *)
(* next only after success) or ";" (run the next regardless); an empty     *)
(* simple command is a syntax error and nothing runs.  The payloads        *)
(* composed here contain no list operator inside quotes.                   *)
(***************************************************************************)
ListOpAt(s, i) ==
    IF i + 3 <= Len(s) /\ SubSeq(s, i, i + 3) = " && " THEN "&&"
    ELSE IF i + 2 <= Len(s) /\ SubSeq(s, i, i + 2) = " ; " THEN ";"
    ELSE ""

RECURSIVE ShellParseFrom(_, _, _)
ShellParseFrom(s, start, op) ==
    LET cuts == {i \in start..Len(s) : ListOpAt(s, i) # ""}
    IN IF cuts = {}
       THEN <<[cmd |-> SubSeq(s, start, Len(s)), op |-> op]>>
       ELSE LET c == CHOOSE i \in cuts : \A j \in cuts : i <= j
            IN <<[cmd |-> SubSeq(s, start, c - 1), op |-> op]>>
               \o ShellParseFrom(s, c + Len(ListOpAt(s, c)) + 2, ListOpAt(s, c))

ShellParse(s) == ShellParseFrom(s, 1, "")

ShellSyntaxOk(list) == \A i \in 1..Len(list) : list[i].cmd # ""

IsCd(cmd) == StartsWith(cmd, "cd \"") /\ EndsWith(cmd, "\"") /\ Len(cmd) >= 5

CdTarget(cmd) == SubSeq(cmd, 5, Len(cmd) - 1)

ShellIdle == [list |-> <<>>, idx |-> 0, cwd |-> "", status |-> "none", log |-> <<>>]

Spawn(command, cwd) ==
    LET list == ShellParse(command)
    IN IF ShellSyntaxOk(list)
       THEN [list |-> list, idx |-> 1, cwd |-> cwd, status |-> "ok", log |-> <<>>]
       ELSE [list |-> <<>>, idx |-> 1, cwd |-> cwd, status |-> "fail", log |-> <<>>]

ShellRunning == pc = "exec" /\ shell.idx <= Len(shell.list)

ShellStarts == shell.list[shell.idx].op # "&&" \/ shell.status = "ok"

(***************************************************************************)
(* tryBundle, bundling.ts:133-154                                          *)
(***************************************************************************)
\* exec (./util) runs the command synchronously and throws when the process
\* exits with a non-zero status
ExecThrows(sh) == sh.status # "ok"

\* tryBundle up to the blocking exec call: the command is assembled, then
\* exec spawns the shell in cwd = projectRoot; an Error thrown by
\* createBundlingCommand leaves tryBundle before exec is reached.
TryBundleCall ==
    /\ pc = "start"
    /\ LET r == createLocalCommand(outputDir)
       IN IF r.threw
          THEN /\ pc' = "threw"
               /\ error' = r.value
               /\ UNCHANGED <<localCommand, execCalls, shell>>
          ELSE /\ pc' = "exec"
               /\ localCommand' = r.value
               /\ execCalls' = execCalls + 1
               /\ shell' = Spawn(r.value, props.projectRoot)
               /\ UNCHANGED error
    /\ UNCHANGED <<osPlatform, props, pkgJson, outputDir, result>>
    /\ UNCHANGED <<lockVars, chainVars, pathVars>>

\* the shell runs its next simple command, which succeeds or fails
ShellStep ==
    /\ ShellRunning
    /\ ShellStarts
    /\ \E ok \in BOOLEAN :
         LET cmd == shell.list[shell.idx].cmd
         IN shell' = [shell EXCEPT
                !.idx = @ + 1,
                !.status = IF ok THEN "ok" ELSE "fail",
                !.cwd = IF ok /\ IsCd(cmd) THEN CdTarget(cmd) ELSE @,
                !.log = Append(@, [cmd |-> cmd, cwd |-> shell.cwd, ok |-> ok])]
    /\ UNCHANGED <<osPlatform, props, pkgJson, outputDir, pc, localCommand, error,
                   execCalls, result>>
    /\ UNCHANGED <<lockVars, chainVars, pathVars>>

\* "&&" after a failed command: the next simple command is not run
ShellSkip ==
    /\ ShellRunning
    /\ ~ShellStarts
    /\ shell' = [shell EXCEPT !.idx = @ + 1]
    /\ UNCHANGED <<osPlatform, props, pkgJson, outputDir, pc, localCommand, error,
                   execCalls, result>>
    /\ UNCHANGED <<lockVars, chainVars, pathVars>>

\* a variant that reports success whatever the shell's exit status
TryBundleReturn_swallow ==
    /\ pc = "exec"
    /\ shell.idx > Len(shell.list)
    /\ pc' = "returned"
    /\ result' = "true"
    /\ UNCHANGED <<osPlatform, props, pkgJson, outputDir, localCommand, error,
                   execCalls, shell>>
    /\ UNCHANGED <<lockVars, chainVars, pathVars>>

\* the shell has exited: exec returns, or throws on a non-zero exit status,
\* and tryBundle returns true after exec returned
TryBundleReturn ==
    /\ pc = "exec"
    /\ shell.idx > Len(shell.list)
    /\ IF ~ExecThrows(shell)
       THEN /\ pc' = "returned"
            /\ result' = "true"
            /\ UNCHANGED error
       ELSE /\ pc' = "threw"
            /\ error' = "exec: " \o localCommand \o " exited with a non-zero status"
            /\ UNCHANGED result
    /\ UNCHANGED <<osPlatform, props, pkgJson, outputDir, localCommand,
                   execCalls, shell>>
    /\ UNCHANGED <<lockVars, chainVars, pathVars>>

(***************************************************************************)
(* The bundling operations the construct can start                         *)
(***************************************************************************)
Platforms == {"win32", "linux"}

RootOf(platform) == IF IsWin32(platform) THEN "C:\\w" ELSE "/w"

OutOf(platform) == IF IsWin32(platform) THEN "C:\\o" ELSE "/o"

ModuleNames == {"axios", "rxjs"}

NoDeps == [n \in {} |-> ""]

Manifests(dir) ==
    { [found |-> FALSE, valid |-> FALSE, dir |-> dir,
       dependencies |-> NoDeps, peerDependencies |-> NoDeps, devDependencies |-> NoDeps],
      [found |-> TRUE, valid |-> FALSE, dir |-> dir,
       dependencies |-> NoDeps, peerDependencies |-> NoDeps, devDependencies |-> NoDeps],
      [found |-> TRUE, valid |-> TRUE, dir |-> dir,
       dependencies |-> [n \in {"axios"} |-> "^1.2.0"],
       peerDependencies |-> NoDeps, devDependencies |-> NoDeps],
      [found |-> TRUE, valid |-> TRUE, dir |-> dir,
       dependencies |-> [n \in {"axios"} |-> "^1.2.0"],
       peerDependencies |-> [n \in {"axios"} |-> "1"],
       devDependencies |-> [n \in {"axios", "rxjs"} |-> "7"]] }

ModuleLists == UNION { [1..n -> ModuleNames] : n \in 0..MaxModules }

NodeModulesOptions ==
    {[given |-> FALSE, names |-> <<>>]} \cup {[given |-> TRUE, names |-> l] : l \in ModuleLists}

BundlingPropsOf(platform) ==
    LET root == RootOf(platform)
    IN { [depsLockFilePath |-> PathJoin(platform, <<root, sub, LockFileNames[k]>>),
          project |-> project,
          entry |-> PathJoin(platform, <<root, "dist", "main.js">>),
          projectRoot |-> root,
          nodeModules |-> nm] :
         sub \in {"", "sub"}, k \in 1..3, project \in {None, "api"},
         nm \in NodeModulesOptions }

(***************************************************************************)
(* findUpMultiple (./util): searches upward from process.cwd(), checking   *)
(* every name at a directory level before ascending, and returns the       *)
(* matches of the first level that has any.  fs[i] is the set of names     *)
(* present at level i; the last level is the file system root.             *)
(***************************************************************************)
RECURSIVE DirPath(_)
DirPath(n) == IF n = 0 THEN "/" ELSE IF n = 1 THEN "/d" ELSE DirPath(n - 1) \o "/d"

\* the directory of level i when the search starts Len(fs) levels deep
LevelDir(fs, i) == DirPath(Len(fs) - i)

RECURSIVE FindUpFrom(_, _, _)
FindUpFrom(names, fs, level) ==
    LET Present(name) == name \in fs[level]
        InDir(i) == PathJoin("linux", <<LevelDir(fs, level), SelectSeq(names, Present)[i]>>)
        files == [i \in 1..Len(SelectSeq(names, Present)) |-> InDir(i)]
    IN IF files # <<>> THEN files
       ELSE IF level = Len(fs) THEN <<>>
       ELSE FindUpFrom(names, fs, level + 1)

findUpMultiple(names, fs) == FindUpFrom(names, fs, 1)

\* path.resolve of a POSIX path against process.cwd()
PathResolve(cwd, p) == IF StartsWith(p, "/") THEN p ELSE PathJoin("linux", <<cwd, p>>)

(***************************************************************************)
(* findLockFile, part_000:70-97.  The outcome is [kind, value, calls]:     *)
(* the returned path or the thrown Error's message, and the file system    *)
(* primitives called, in order.                                            *)
(***************************************************************************)
\* the messages are the source's without their backquotes
NoLockFileMessage ==
    "Cannot find a package lock file (pnpm-lock.yaml, yarn.lock or package-lock.json). Please specify it with depsLockFilePath."

MultipleLockFilesPrefix == "Multiple package lock files found: "

MultipleLockFilesSuffix == ". Please specify the desired one with depsLockFilePath."

NotAFileMessage == "depsLockFilePath should point to a file"

SearchLockFile(fs, calls) ==
    LET lockFiles == findUpMultiple(LockFileNames, fs)
        called == calls \o <<"findUpMultiple">>
    IN IF Len(lockFiles) = 0
       THEN [kind |-> "throw", value |-> NoLockFileMessage, calls |-> called]
       ELSE IF Len(lockFiles) > 1
       THEN [kind |-> "throw",
             value |-> MultipleLockFilesPrefix \o Join(lockFiles, ", ") \o MultipleLockFilesSuffix,
             calls |-> called]
       ELSE [kind |-> "return", value |-> lockFiles[1], calls |-> called]

\* a variant without the ambiguity check
findLockFile_first(arg, fs) ==
    LET lockFiles == findUpMultiple(LockFileNames, fs)
    IN IF arg.path # None /\ Truthy(arg.path)
       THEN IF ~arg.exists
            THEN [kind |-> "throw",
                  value |-> "Lock file at " \o arg.path \o " doesn't exist",
                  calls |-> <<"existsSync">>]
            ELSE IF ~arg.isFile
            THEN [kind |-> "throw", value |-> NotAFileMessage,
                  calls |-> <<"existsSync", "statSync">>]
            ELSE [kind |-> "return", value |-> PathResolve(LevelDir(fs, 1), arg.path),
                  calls |-> <<"existsSync", "statSync">>]
       ELSE IF Len(lockFiles) = 0
       THEN [kind |-> "throw", value |-> NoLockFileMessage, calls |-> <<"findUpMultiple">>]
       ELSE [kind |-> "return", value |-> lockFiles[1], calls |-> <<"findUpMultiple">>]

\* a variant that falls back to the search when the given path is missing
findLockFile_fallback(arg, fs) ==
    IF arg.path # None /\ Truthy(arg.path) /\ arg.exists
    THEN IF ~arg.isFile
         THEN [kind |-> "throw", value |-> NotAFileMessage,
               calls |-> <<"existsSync", "statSync">>]
         ELSE [kind |-> "return", value |-> PathResolve(LevelDir(fs, 1), arg.path),
               calls |-> <<"existsSync", "statSync">>]
    ELSE SearchLockFile(fs, IF arg.path # None /\ Truthy(arg.path)
                            THEN <<"existsSync">> ELSE <<>>)

findLockFile(arg, fs) ==
    IF arg.path # None /\ Truthy(arg.path)
    THEN IF ~arg.exists
         THEN [kind |-> "throw",
               value |-> "Lock file at " \o arg.path \o " doesn't exist",
               calls |-> <<"existsSync">>]
         ELSE IF ~arg.isFile
         THEN [kind |-> "throw", value |-> NotAFileMessage,
               calls |-> <<"existsSync", "statSync">>]
         ELSE [kind |-> "return", value |-> PathResolve(LevelDir(fs, 1), arg.path),
               calls |-> <<"existsSync", "statSync">>]
    ELSE SearchLockFile(fs, <<>>)

LockPending == [kind |-> "pending", value |-> "", calls |-> <<>>]

IdleBundle ==
    /\ osPlatform = "linux"
    /\ props = None
    /\ pkgJson = None
    /\ outputDir = None
    /\ pc = "off"
    /\ localCommand = Pending
    /\ error = ""
    /\ execCalls = 0
    /\ shell = ShellIdle
    /\ result = "none"

IdleLock == lfArg = None /\ lfFs = <<>> /\ lfOut = LockPending

IdleChain == chCommands = <<>> /\ chResult = Pending

IdlePath == pjHost = "linux" /\ pjTarget = "linux" /\ pjPaths = <<>> /\ pjResult = Pending

(***************************************************************************)
(* One bundling operation                                                  *)
(***************************************************************************)
Init ==
    /\ osPlatform \in Platforms
    /\ props \in BundlingPropsOf(osPlatform)
    /\ pkgJson \in Manifests(props.projectRoot)
    /\ outputDir = OutOf(osPlatform)
    /\ pc = "start"
    /\ localCommand = Pending
    /\ error = ""
    /\ execCalls = 0
    /\ shell = ShellIdle
    /\ result = "none"
    /\ IdleLock /\ IdleChain /\ IdlePath

Next == TryBundleCall \/ ShellStep \/ ShellSkip \/ TryBundleReturn

Spec == Init /\ [][Next]_vars

(***************************************************************************)
(* One call of findLockFile, as the NestjsFunction constructor makes it    *)
(* (part_000:41)                                                           *)
(***************************************************************************)
LockArgs ==
    {[path |-> p, exists |-> FALSE, isFile |-> FALSE] : p \in {None, ""}}
    \cup {[path |-> p, exists |-> e, isFile |-> f] :
            p \in {"yarn.lock", "/x/my.lock"},
            e \in BOOLEAN, f \in BOOLEAN}

LockTrees == UNION { [1..n -> SUBSET {LockFilePNPM, LockFileYARN, LockFileNPM}] : n \in 1..MaxDepth }

FindLockFileCall ==
    /\ lfOut.kind = "pending"
    /\ lfOut' = findLockFile(lfArg, lfFs)
    /\ UNCHANGED <<lfArg, lfFs, bundleVars, chainVars, pathVars>>

LockInit ==
    /\ lfArg \in {a \in LockArgs : a.isFile => a.exists}
    /\ lfFs \in LockTrees
    /\ lfOut = LockPending
    /\ IdleBundle /\ IdleChain /\ IdlePath

LockNext == FindLockFileCall

LockSpec == LockInit /\ [][LockNext]_vars

(***************************************************************************)
(* chain applied to a list of commands                                     *)
(***************************************************************************)
CommandStrings == {"", "a", "b c", "d"}

ChainCall ==
    /\ chResult = Pending
    /\ chResult' = chain(chCommands)
    /\ UNCHANGED <<chCommands, bundleVars, lockVars, pathVars>>

ChainInit ==
    /\ chCommands \in UNION { [1..n -> CommandStrings] : n \in 0..MaxCmds }
    /\ chResult = Pending
    /\ IdleBundle /\ IdleLock /\ IdlePath

ChainNext == ChainCall

ChainSpec == ChainInit /\ [][ChainNext]_vars

(***************************************************************************)
(* osPathJoin(platform)(...paths) on a host                                *)
(***************************************************************************)
AllPlatforms == {"win32", "linux", "darwin"}

Segments == {"a", "b\\c", "d/e", "C:\\x"}

OsPathJoinCall ==
    /\ pjResult = Pending
    /\ pjResult' = osPathJoin(pjHost, pjTarget, pjPaths)
    /\ UNCHANGED <<pjHost, pjTarget, pjPaths, bundleVars, lockVars, chainVars>>

PathInit ==
    /\ pjHost \in AllPlatforms
    /\ pjTarget \in AllPlatforms
    /\ pjPaths \in UNION { [1..n -> Segments] : n \in 1..MaxSegs }
    /\ pjResult = Pending
    /\ IdleBundle /\ IdleLock /\ IdleChain

PathNext == OsPathJoinCall

PathSpec == PathInit /\ [][PathNext]_vars

(***************************************************************************)
(* Properties                                                              *)
(***************************************************************************)
\* String.prototype.split(sep)
RECURSIVE SplitFrom(_, _, _)
SplitFrom(s, sep, start) ==
    LET cuts == {i \in start..(Len(s) - Len(sep) + 1) : SubSeq(s, i, i + Len(sep) - 1) = sep}
    IN IF cuts = {}
       THEN <<SubSeq(s, start, Len(s))>>
       ELSE LET c == CHOOSE i \in cuts : \A j \in cuts : i <= j
            IN <<SubSeq(s, start, c - 1)>> \o SplitFrom(s, sep, c + Len(sep))

Split(s, sep) == SplitFrom(s, sep, 1)

Assembled == localCommand # Pending

\* the simple commands of the composed command, as the shell sees them
Steps == ShellParse(localCommand)

HasDeps == props.nodeModules.given

InstallLine == Join(packageManager.installCommand, " ")

OutFile(name) == outputDir \o Sep(osPlatform) \o name

IsBuildStep(cmd) == StartsWith(cmd, "npx nest build ") /\ EndsWith(cmd, " --webpack")

IsArtifactCopy(cmd) ==
    /\ \E verb \in {"cp -r ", "copy ", "xcopy "} : StartsWith(cmd, verb)
    /\ EndsWith(cmd, "* \"" \o outputDir \o "\"")

IsManifestWrite(cmd) ==
    /\ StartsWith(cmd, "echo ")
    /\ Contains(cmd, "{\"dependencies\":{")
    /\ EndsWith(cmd, " > \"" \o OutFile("package.json") \o "\"")

IsLockCopy(cmd) ==
    /\ \E verb \in {"cp \"", "copy \""} : StartsWith(cmd, verb)
    /\ Contains(cmd, props.depsLockFilePath)
    /\ EndsWith(cmd, " \"" \o OutFile(packageManager.lockFile) \o "\"")

IsChangeToOutput(cmd) == cmd = "cd \"" \o outputDir \o "\""

\* C3: the composed command is build, artifact copy, then the dependency
\* sub-chain (manifest write, lock file copy under the canonical name, change
\* into the output directory, install) when nodeModules was supplied, and
\* build and artifact copy only when it was not.
C3_CommandOrder ==
    Assembled =>
        LET steps == Steps
        IN /\ \A k \in 2..Len(steps) : steps[k].op = "&&"
           /\ Len(steps) = (IF HasDeps THEN 6 ELSE 2)
           /\ IsBuildStep(steps[1].cmd)
           /\ IsArtifactCopy(steps[2].cmd)
           /\ HasDeps =>
                /\ IsManifestWrite(steps[3].cmd)
                /\ IsLockCopy(steps[4].cmd)
                /\ IsChangeToOutput(steps[5].cmd)
                /\ steps[6].cmd = InstallLine

C3_Witness ==
    /\ pc = "returned"
    /\ HasDeps
    /\ Len(props.nodeModules.names) = 2
    /\ Len(shell.log) = 6

\* C4: a step of the chain starts only if every step before it exited
\* successfully; the install command runs only after build, artifact copy,
\* manifest write, lock file copy and change of directory all succeeded.
C4_AbortAtFirstFailure ==
    /\ \A k \in 1..Len(shell.log) :
         /\ shell.log[k].cmd = shell.list[k].cmd
         /\ \A j \in 1..(k - 1) : shell.log[j].ok
    /\ \A k \in 1..Len(shell.log) :
         (HasDeps /\ shell.log[k].cmd = InstallLine) =>
             /\ k = 6
             /\ \A j \in 1..5 : shell.log[j].ok

C4_Witness ==
    /\ pc = "threw"
    /\ HasDeps
    /\ Len(shell.list) = 6
    /\ Len(shell.log) = 3
    /\ ~shell.log[3].ok

\* C6: the shell starts in the project root; build, artifact copy, manifest
\* write and lock file copy run there; only the change-directory step changes
\* the working directory, and the install that follows it runs in the output
\* directory.
C6_WorkingDirectory ==
    /\ (pc = "exec" /\ shell.log = <<>>) => shell.cwd = props.projectRoot
    /\ \A k \in 1..Len(shell.log) :
         /\ k <= 4 => shell.log[k].cwd = props.projectRoot
         /\ shell.log[k].cmd = InstallLine =>
              /\ shell.log[k].cwd = outputDir
              /\ IsCd(shell.log[k - 1].cmd)
         /\ (k > 1 /\ shell.log[k].cwd # shell.log[k - 1].cwd) => IsCd(shell.log[k - 1].cmd)
    /\ (pc # "start" /\ shell.log # <<>> /\ shell.cwd # shell.log[Len(shell.log)].cwd)
         => IsCd(shell.log[Len(shell.log)].cmd)

C6_Witness ==
    /\ Len(shell.log) = 6
    /\ shell.log[6].cmd = InstallLine
    /\ shell.log[6].cwd = outputDir
    /\ shell.log[1].cwd = props.projectRoot
    /\ outputDir # props.projectRoot

ShellExited == shell.idx > Len(shell.list) /\ execCalls > 0

\* C7: tryBundle returns true only after the one exec call completed
\* successfully; a non-zero exit leaves tryBundle as a thrown Error, exec is
\* not called again, and success is never reported for a failed run.
C7_ReturnsOnlyOnSuccess ==
    /\ execCalls <= 1
    /\ result = "true" =>
         /\ pc = "returned"
         /\ execCalls = 1
         /\ ShellExited
         /\ Len(shell.log) = Len(shell.list)
         /\ \A k \in 1..Len(shell.log) : shell.log[k].ok
    /\ (ShellExited /\ pc # "exec" /\ \E k \in 1..Len(shell.log) : ~shell.log[k].ok) =>
         /\ pc = "threw"
         /\ error # ""
         /\ result # "true"

C7_Witness ==
    /\ pc = "threw"
    /\ execCalls = 1
    /\ ShellExited
    /\ ~shell.log[Len(shell.log)].ok

\* C9 (as claimed): every file-copy step of the composed command, the
\* artifact copy and the lock file copy, uses the copy verb of the platform:
\* copy on win32, cp otherwise.
CopyVerb(cmd) == Split(cmd, " ")[1]

C9_CopyVerbOfPlatform ==
    Assembled =>
        LET steps == Steps
        IN \A k \in {2} \cup (IF HasDeps THEN {4} ELSE {}) :
              k <= Len(steps) =>
                  CopyVerb(steps[k].cmd) = (IF IsWin32(osPlatform) THEN "copy" ELSE "cp")

\* the names requested that no section of the manifest declares
Undeclared ==
    {props.nodeModules.names[i] : i \in 1..Len(props.nodeModules.names)}
    \ (DOMAIN pkgJson.dependencies \cup DOMAIN pkgJson.peerDependencies
       \cup DOMAIN pkgJson.devDependencies)

AssemblyFails == HasDeps /\ (~pkgJson.found \/ ~pkgJson.valid \/ Undeclared # {})

\* C10: when nodeModules was supplied and no package.json is found (or the
\* extraction fails), the Error leaves tryBundle, exec is never called and
\* tryBundle does not return true; exec is called at most once, and only
\* with the fully assembled command.
C10_AssemblyFailureAborts ==
    /\ (AssemblyFails /\ pc # "start") =>
         /\ pc = "threw"
         /\ error # ""
         /\ execCalls = 0
         /\ shell = ShellIdle
         /\ result # "true"
    /\ execCalls <= 1
    /\ execCalls = 1 => (Assembled /\ shell.list = Steps)
    /\ (HasDeps /\ ~pkgJson.found /\ pc # "start") => error = PkgNotFoundMessage

C10_Witness ==
    /\ pc = "threw"
    /\ HasDeps
    /\ ~pkgJson.found
    /\ execCalls = 0

LockCalled == lfOut.kind # "pending"

\* the directory levels that hold a lock file
HitLevels == {i \in 1..Len(lfFs) : lfFs[i] # {}}

NearestHit == CHOOSE i \in HitLevels : \A j \in HitLevels : i <= j

LevelFile(i, name) == (IF LevelDir(lfFs, i) = "/" THEN "" ELSE LevelDir(lfFs, i)) \o "/" \o name

\* the paths an ambiguity message lists
ListedIn(message) ==
    LET body == SubSeq(message, Len(MultipleLockFilesPrefix) + 1,
                       Len(message) - Len(MultipleLockFilesSuffix))
        parts == Split(body, ", ")
    IN {parts[i] : i \in 1..Len(parts)}

\* C1: without an explicit path the outcome depends only on the lock file
\* names at the nearest directory level that has any: none at any level is
\* the no-lock-file error, two or more at that level is the ambiguity error
\* listing exactly those files, exactly one returns that file's path.
C1_NearestLevelDecides ==
    (LockCalled /\ lfArg.path = None) =>
        IF HitLevels = {}
        THEN lfOut.kind = "throw" /\ lfOut.value = NoLockFileMessage
        ELSE LET here == lfFs[NearestHit]
             IN IF Cardinality(here) > 1
                THEN /\ lfOut.kind = "throw"
                     /\ StartsWith(lfOut.value, MultipleLockFilesPrefix)
                     /\ EndsWith(lfOut.value, MultipleLockFilesSuffix)
                     /\ ListedIn(lfOut.value) = {LevelFile(NearestHit, n) : n \in here}
                ELSE /\ lfOut.kind = "return"
                     /\ \E n \in here : lfOut.value = LevelFile(NearestHit, n)

C1_Witness ==
    /\ LockCalled
    /\ lfArg.path = None
    /\ Len(lfFs) = 2
    /\ Cardinality(lfFs[1]) = 1
    /\ Cardinality(lfFs[2]) = 2
    /\ lfOut.kind = "return"

ExplicitPath == lfArg.path # None /\ lfArg.path # ""

\* C2: with an explicit path, a missing path is the not-found error, an
\* existing path that is not a regular file is the invalid-target error,
\* anything else returns the path made absolute; existence is checked before
\* the file type and no upward search is made.
C2_ExplicitPath ==
    (LockCalled /\ ExplicitPath) =>
        /\ \A i \in 1..Len(lfOut.calls) : lfOut.calls[i] # "findUpMultiple"
        /\ lfOut.calls[1] = "existsSync"
        /\ ~lfArg.exists =>
             /\ lfOut.kind = "throw"
             /\ lfOut.value = "Lock file at " \o lfArg.path \o " doesn't exist"
             /\ lfOut.calls = <<"existsSync">>
        /\ (lfArg.exists /\ ~lfArg.isFile) =>
             /\ lfOut.kind = "throw"
             /\ lfOut.value = NotAFileMessage
        /\ (lfArg.exists /\ lfArg.isFile) =>
             /\ lfOut.kind = "return"
             /\ StartsWith(lfOut.value, "/")
             /\ EndsWith(lfOut.value, lfArg.path)
             /\ StartsWith(lfArg.path, "/") => lfOut.value = lfArg.path

C2_Witness ==
    /\ LockCalled
    /\ ExplicitPath
    /\ ~lfArg.exists
    /\ HitLevels # {}
    /\ lfOut.kind = "throw"

ChainCalled == chResult # Pending

Kept == SelectSeq(chCommands, Truthy)

\* C5: chain returns the non-empty entries, in their order, joined with
\* " && "; no non-empty entry gives the empty string; the result neither
\* starts nor ends with the join operator nor holds two of them in a row.
C5_ChainJoinsNonEmpty ==
    ChainCalled =>
        /\ Kept = <<>> => chResult = ""
        /\ Kept # <<>> => Split(chResult, " && ") = Kept
        /\ ~StartsWith(chResult, " && ")
        /\ ~EndsWith(chResult, " && ")
        /\ ~Contains(chResult, " &&  && ")

C5_Witness ==
    /\ ChainCalled
    /\ chCommands = <<"a", "", "b c">>
    /\ chResult = "a && b c"

PathJoined == pjResult # Pending

Rewrites == IsWin32(pjHost) /\ ~IsWin32(pjTarget)

\* C8: osPathJoin replaces every backslash of the joined path by a forward
\* slash when the host is win32 and the target is not; in every other
\* combination the joined path comes back unaltered (on a POSIX host the
\* segments keep their separators), and no forward slash becomes a backslash.
C8_OneDirectionOnly ==
    PathJoined =>
        LET joined == PathJoin(pjHost, pjPaths)
        IN /\ Len(pjResult) = Len(joined)
           /\ \A i \in 1..Len(joined) :
                CharAt(pjResult, i) =
                    (IF Rewrites /\ CharAt(joined, i) = "\\" THEN "/" ELSE CharAt(joined, i))
           /\ ~Rewrites => pjResult = joined
           /\ ~IsWin32(pjHost) =>
                \A k \in 1..Len(pjPaths) : Contains(pjResult, pjPaths[k])

C8_Witness ==
    /\ PathJoined
    /\ Rewrites
    /\ pjPaths = <<"C:\\x", "b\\c">>
    /\ pjResult = "C:/x/b/c"

====
